---- MODULE Spec2Model ----
(***************************************************************************)
(* Model of run() in src/index.js (lines 8-269): the pull-request review   *)
(* action.  One invocation fetches the pull request's context through the  *)
(* source-control client, calls the completion client once, interprets the *)
(* answer and posts comments.  The collaborators are black boxes: every    *)
(* call either returns or throws an error with a message.  Lines 272-325   *)
(* of the file hold a second, shorter run() that posts the raw completion  *)
(* and has no interpretation step; it is not modelled.                     *)
(*                                                                         *)
(* The text of a completion is a sequence of tokens.  A token stands for a *)
(* piece of concrete text:                                                 *)
(*   "{"  "}"  the two brace characters                                    *)
(*   "x"       prose with no brace and no JSON meaning                     *)
(*   "b"       the member  "body":"Avoid the global"                       *)
(*   "p"       the member  "path":"src/app.js"                             *)
(*   "l"       the member  "line":7                                        *)
(*   "c"       the member  "commit_id":"c0ffee"                            *)
(*   "s"       the member  "side":"LEFT"                                   *)
(*   "k"       the member  "is_ok":true                                    *)
(*   "bo"      the start   "body":"wrap it in if (x) {   of a member whose *)
(*             string value goes on past a brace                           *)
(*   "qc"      the end      y"   of that string value                      *)
(* Commas between members are left implicit.  A line number is kept as a   *)
(* numeral string: run() does no arithmetic on it.  The pass-through       *)
(* fields start_line and start_side are absent from every input and left   *)
(* out of the payload.                                                     *)
(***************************************************************************)
EXTENDS Integers, Sequences, FiniteSets, TLC

VARIABLES pc, feedback, jsonMatches, idx, calls, warnings, outcome, failedMessage

vars == <<pc, feedback, jsonMatches, idx, calls, warnings, outcome, failedMessage>>

\* Largest number of chunks a completion text is composed of.
MaxChunks == 3

\* JavaScript's undefined, for a field an object does not have.
Undefined == "undefined"

\* pr.head.sha, the head commit of the pull request.
HeadSha == "headsha"

\* Messages of the errors a collaborator call can throw.
ErrMsgs == {"Not Found", "Bad credentials"}

\* Message of the TypeError of reading a property of null / calling a non-function.
TypeErrorMsg == "TypeError"

\* Message of the SyntaxError JSON.parse throws.
SyntaxErrorMsg == "SyntaxError"

FailPrefix == "Action failed with error: "

WarnPrefix == "Failed to parse JSON comment: "

\* JavaScript truthiness of the values the model uses.  The booleans true and
\* false and the number 0 are written "true", "false" and "0".
Truthy(v) == v \notin {Undefined, "", "false", "0"}

-----------------------------------------------------------------------------
\* The inputs: what the completion client can hand back.

Fields == {"is_ok", "body", "commit_id", "path", "line", "side"}

\* The members a token stands for.
MemberTokens == {"b", "p", "l", "c", "s", "k"}

MemberKey(tok) ==
  CASE tok = "b" -> "body"
    [] tok = "p" -> "path"
    [] tok = "l" -> "line"
    [] tok = "c" -> "commit_id"
    [] tok = "s" -> "side"
    [] tok = "k" -> "is_ok"

MemberVal(tok) ==
  CASE tok = "b" -> "Avoid the global"
    [] tok = "p" -> "src/app.js"
    [] tok = "l" -> "7"
    [] tok = "c" -> "c0ffee"
    [] tok = "s" -> "LEFT"
    [] tok = "k" -> "true"

\* The kinds of chunk a completion text is composed of, and their text.
ChunkKinds == {"prose", "valid", "validOwn", "noPath", "garbage", "open", "braceBody", "isOk"}

ChunkText(k) ==
  CASE k = "prose"     -> <<"x">>
    [] k = "valid"     -> <<"{", "b", "p", "l", "}">>
    [] k = "validOwn"  -> <<"{", "b", "p", "l", "c", "s", "}">>
    [] k = "noPath"    -> <<"{", "b", "l", "}">>
    [] k = "garbage"   -> <<"{", "x", "}">>
    [] k = "open"      -> <<"{", "x">>
    [] k = "braceBody" -> <<"{", "bo", "}", "qc", "p", "l", "}">>
    [] k = "isOk"      -> <<"{", "k", "b", "}">>

RECURSIVE Flatten(_)
Flatten(cs) == IF cs = <<>> THEN <<>> ELSE ChunkText(Head(cs)) \o Flatten(Tail(cs))

ChunkSeqs == UNION {[1..n -> ChunkKinds] : n \in 0..MaxChunks}

TextResponses == {[kind |-> "text", chunks |-> cs, text |-> Flatten(cs)] : cs \in ChunkSeqs}

\* A completion that is already a decoded object of the response schema.
Obj(ok, body, path, line) ==
  [is_ok |-> ok, body |-> body, commit_id |-> Undefined, path |-> path, line |-> line, side |-> Undefined]

ObjectResponses ==
  {[kind |-> "object", obj |-> o] :
     o \in {Obj("true", "Everything looks good!", Undefined, Undefined),
            Obj("true", "Everything looks good!", "src/app.js", "7"),
            Obj("false", "Avoid the global", "src/app.js", "7"),
            Obj("false", "Avoid the global", Undefined, Undefined)}}

NullResponse == [kind |-> "null"]

Responses == TextResponses \cup ObjectResponses \cup {NullResponse}

-----------------------------------------------------------------------------
\* The pure functions run() applies to a text.

Min(S) == CHOOSE m \in S : \A n \in S : m <= n

\* feedback.match(/\{[\s\S]*?\}/g): from the first "{" at or after position i
\* to the nearest "}" after it, then again after that match.  null (no
\* match) is the empty sequence.
RECURSIVE MatchFrom(_, _)
MatchFrom(t, i) ==
  LET opens == {j \in i..Len(t) : t[j] = "{"} IN
  IF opens = {} THEN <<>>
  ELSE LET o == Min(opens)
           closes == {j \in (o + 1)..Len(t) : t[j] = "}"} IN
       IF closes = {} THEN <<>>
       ELSE LET c == Min(closes) IN <<SubSeq(t, o, c)>> \o MatchFrom(t, c + 1)

Match(t) == MatchFrom(t, 1)

\* JSON.parse(jsonStr) on a segment "{" ... "}": an object when everything
\* between the braces is a member, and a thrown SyntaxError otherwise.  A
\* key that occurs twice keeps its last value.
Parses(seg) == \A i \in 2..(Len(seg) - 1) : seg[i] \in MemberTokens

ParseJSON(seg) ==
  [f \in Fields |->
     LET at == {i \in 2..(Len(seg) - 1) : MemberKey(seg[i]) = f} IN
     IF at = {} THEN Undefined
     ELSE MemberVal(seg[CHOOSE i \in at : \A j \in at : j <= i])]

\* commentData.body && commentData.path && commentData.line
HasRequired(o) == Truthy(o.body) /\ Truthy(o.path) /\ Truthy(o.line)

\* The arguments of createReviewComment, after the two defaults.
Payload(o) ==
  [body      |-> o.body,
   commit_id |-> IF Truthy(o.commit_id) THEN o.commit_id ELSE HeadSha,
   path      |-> o.path,
   line      |-> o.line,
   side      |-> IF Truthy(o.side) THEN o.side ELSE "RIGHT"]

\* What createComment is given as body when the whole response is posted.
RawBody(r) == IF r.kind = "text" THEN r.text ELSE r.obj

-----------------------------------------------------------------------------
\* The state machine of one invocation of run().

Results == {"ok"} \cup ErrMsgs

Init ==
  /\ pc = "pulls.get"
  /\ feedback = [kind |-> "none"]
  /\ jsonMatches = <<>>
  /\ idx = 1
  /\ calls = <<>>
  /\ warnings = <<>>
  /\ outcome = "none"
  /\ failedMessage = <<>>

\* One call of a collaborator, with what it was given and how it ended.
Call(op, arg, r) == calls' = Append(calls, [op |-> op, arg |-> arg, result |-> r])

\* The outer catch: core.setFailed(`Action failed with error: ${error.message}`).
Throw(msg) ==
  /\ pc' = "done"
  /\ outcome' = "failed"
  /\ failedMessage' = <<FailPrefix, msg>>

Fetch_swallow(op, here, next) ==
  /\ pc = here
  /\ \E r \in Results :
       /\ Call(op, "prNumber", r)
       /\ pc' = next
       /\ UNCHANGED <<outcome, failedMessage>>
  /\ UNCHANGED <<feedback, jsonMatches, idx, warnings>>

\* One awaited context fetch: it returns, or its error reaches the outer catch.
Fetch(op, here, next) ==
  /\ pc = here
  /\ \E r \in Results :
       /\ Call(op, "prNumber", r)
       /\ IF r = "ok"
          THEN pc' = next /\ UNCHANGED <<outcome, failedMessage>>
          ELSE Throw(r)
  /\ UNCHANGED <<feedback, jsonMatches, idx, warnings>>

GetPR == Fetch("pulls.get", "pulls.get", "pulls.listFiles")

ListFiles == Fetch("pulls.listFiles", "pulls.listFiles", "pulls.listReviewComments")

ListReviewComments ==
  Fetch("pulls.listReviewComments", "pulls.listReviewComments", "issues.listComments")

ListComments == Fetch("issues.listComments", "issues.listComments", "chat.completions.create")

\* await openai.chat.completions.create(...); feedback is the content of the
\* first choice.
CreateCompletion ==
  /\ pc = "chat.completions.create"
  /\ \E r \in Results :
       /\ Call("chat.completions.create", "prompt", r)
       /\ IF r = "ok"
          THEN /\ \E resp \in Responses : feedback' = resp
               /\ pc' = "interpret"
               /\ UNCHANGED <<outcome, failedMessage>>
          ELSE Throw(r) /\ UNCHANGED feedback
  /\ UNCHANGED <<jsonMatches, idx, warnings>>

\* if (feedback.is_ok) ... else { try { jsonMatches = feedback.match(...) ...
\* Reading is_ok of null throws to the outer catch; a text has no is_ok; an
\* object has no match method, and that TypeError is caught by the catch of
\* the try it is thrown in.
Interpret ==
  /\ pc = "interpret"
  /\ CASE feedback.kind = "null" ->
            Throw(TypeErrorMsg) /\ UNCHANGED <<jsonMatches, idx>>
       [] feedback.kind = "object" ->
            /\ pc' = IF Truthy(feedback.obj.is_ok) THEN "positive" ELSE "catchFallback"
            /\ UNCHANGED <<jsonMatches, idx, outcome, failedMessage>>
       [] feedback.kind = "text" ->
            /\ jsonMatches' = Match(feedback.text)
            /\ idx' = 1
            /\ pc' = IF Len(Match(feedback.text)) > 0 THEN "loop" ELSE "noJson"
            /\ UNCHANGED <<outcome, failedMessage>>
  /\ UNCHANGED <<feedback, calls, warnings>>

\* The positive branch: one createComment with feedback.body.
PostPositive ==
  /\ pc = "positive"
  /\ \E r \in Results :
       /\ Call("issues.createComment", feedback.obj.body, r)
       /\ IF r = "ok"
          THEN pc' = "finish" /\ UNCHANGED <<outcome, failedMessage>>
          ELSE Throw(r)
  /\ UNCHANGED <<feedback, jsonMatches, idx, warnings>>

\* The next iteration of  for (const jsonStr of jsonMatches).
Advance ==
  /\ idx' = idx + 1
  /\ pc' = IF idx = Len(jsonMatches) THEN "finish" ELSE "loop"

CatchInner_rethrow(msg) == Throw(msg) /\ UNCHANGED <<warnings, idx>>

CatchInner_toFallback(msg) ==
  /\ pc' = "catchFallback"
  /\ UNCHANGED <<warnings, idx, outcome, failedMessage>>

\* catch (parseError) { core.warning(...) }: whatever is thrown in the body
\* of the loop, by JSON.parse or by createReviewComment, ends here.
CatchInner(msg) ==
  /\ warnings' = Append(warnings, <<WarnPrefix, msg>>)
  /\ Advance
  /\ UNCHANGED <<outcome, failedMessage>>

\* One iteration of the loop over the matched segments.
LoopStep ==
  /\ pc = "loop"
  /\ idx <= Len(jsonMatches)
  /\ LET jsonStr == jsonMatches[idx] IN
     IF ~Parses(jsonStr)
     THEN CatchInner(SyntaxErrorMsg) /\ UNCHANGED calls
     ELSE LET commentData == ParseJSON(jsonStr) IN
          IF HasRequired(commentData)
          THEN \E r \in Results :
                 /\ Call("pulls.createReviewComment", Payload(commentData), r)
                 /\ IF r = "ok"
                    THEN Advance /\ UNCHANGED <<warnings, outcome, failedMessage>>
                    ELSE CatchInner(r)
          ELSE Advance /\ UNCHANGED <<calls, warnings, outcome, failedMessage>>
  /\ UNCHANGED <<feedback, jsonMatches>>

\* The else of  if (jsonMatches && jsonMatches.length > 0): post the raw
\* response; an error is caught by the catch of the enclosing try.
PostNoJson ==
  /\ pc = "noJson"
  /\ \E r \in Results :
       /\ Call("issues.createComment", RawBody(feedback), r)
       /\ pc' = IF r = "ok" THEN "finish" ELSE "catchFallback"
  /\ UNCHANGED <<feedback, jsonMatches, idx, warnings, outcome, failedMessage>>

\* catch (error) { createComment(body: feedback) }: an error here reaches the
\* outer catch.
PostCatchFallback ==
  /\ pc = "catchFallback"
  /\ \E r \in Results :
       /\ Call("issues.createComment", RawBody(feedback), r)
       /\ IF r = "ok"
          THEN pc' = "finish" /\ UNCHANGED <<outcome, failedMessage>>
          ELSE Throw(r)
  /\ UNCHANGED <<feedback, jsonMatches, idx, warnings>>

\* core.setOutput('success', 'true')
Finish ==
  /\ pc = "finish"
  /\ pc' = "done"
  /\ outcome' = "success"
  /\ UNCHANGED <<feedback, jsonMatches, idx, calls, warnings, failedMessage>>

Next ==
  \/ GetPR
  \/ ListFiles
  \/ ListReviewComments
  \/ ListComments
  \/ CreateCompletion
  \/ Interpret
  \/ PostPositive
  \/ LoopStep
  \/ PostNoJson
  \/ PostCatchFallback
  \/ Finish

Spec == Init /\ [][Next]_vars

-----------------------------------------------------------------------------
\* Vocabulary of the properties.

FetchOps == {"pulls.get", "pulls.listFiles", "pulls.listReviewComments", "issues.listComments"}

InlineCalls == SelectSeq(calls, LAMBDA c : c.op = "pulls.createReviewComment")

DiscussionCalls == SelectSeq(calls, LAMBDA c : c.op = "issues.createComment")

ModelCalls == SelectSeq(calls, LAMBDA c : c.op = "chat.completions.create")

AllCallsOk == \A i \in DOMAIN calls : calls[i].result = "ok"

\* A chunk that is a complete JSON object with body, path and line.
WellFormedKinds == {"valid", "validOwn", "braceBody"}

\* A chunk that opens a brace and is not such an object: it does not parse
\* ("garbage", "open") or parses and lacks the path ("noPath").
MalformedKinds == {"noPath", "garbage", "open"}

IsText == feedback.kind = "text"

KindsAt(S) == {i \in DOMAIN feedback.chunks : feedback.chunks[i] \in S}

\* The payloads the loop is to submit for the matched segments, in order.
RECURSIVE ExpectedDrafts(_)
ExpectedDrafts(ms) ==
  IF ms = <<>> THEN <<>>
  ELSE (IF Parses(Head(ms)) /\ HasRequired(ParseJSON(Head(ms)))
        THEN <<Payload(ParseJSON(Head(ms)))>> ELSE <<>>) \o ExpectedDrafts(Tail(ms))

\* C1: a text with no recoverable comment segment and no no-issues signal,
\* brace-delimited text that yields no draft included, ends with exactly one
\* discussion comment whose body is the raw text and with no inline comment,
\* when every collaborator call succeeds.
C1_FallbackForUnrecoverable ==
  (pc = "done" /\ IsText /\ AllCallsOk
     /\ KindsAt(WellFormedKinds \cup {"isOk"}) = {})
  => /\ Len(DiscussionCalls) = 1
     /\ DiscussionCalls[1].arg = feedback.text
     /\ InlineCalls = <<>>

\* The response carries the explicit no-issues signal: a decoded object
\* whose is_ok is true, or a text that is the JSON object {"is_ok":true,
\* "body":...}.
PositiveSignal ==
  \/ feedback.kind = "object" /\ feedback.obj.is_ok = "true"
  \/ IsText /\ feedback.chunks = <<"isOk">>

\* C2: a response that carries the no-issues signal ends with exactly one
\* discussion comment and no inline comment, when every call succeeds.
C2_NoIssuesOneComment ==
  (pc = "done" /\ PositiveSignal /\ AllCallsOk)
  => /\ Len(DiscussionCalls) = 1
     /\ InlineCalls = <<>>

\* The well-formed chunks of the text, in order.
WellFormedChunks == SelectSeq(feedback.chunks, LAMBDA k : k \in WellFormedKinds)

\* C3: a text that carries no no-issues signal and holds N well-formed segments,
\* N in 1..3, ends with N inline submissions, one per segment, each with the
\* head commit and side RIGHT unless the segment names its own.
C3_NSegmentsNSubmissions ==
  (pc = "done" /\ IsText /\ KindsAt({"isOk"}) = {}
     /\ Len(WellFormedChunks) \in 1..3)
  => /\ Len(InlineCalls) = Len(WellFormedChunks)
     /\ \A i \in DOMAIN InlineCalls :
          LET own == WellFormedChunks[i] = "validOwn" IN
          /\ InlineCalls[i].arg.commit_id = (IF own THEN "c0ffee" ELSE HeadSha)
          /\ InlineCalls[i].arg.side = (IF own THEN "LEFT" ELSE "RIGHT")

\* C4: a text of one well-formed and one malformed segment, in either order,
\* ends with one inline submission, a warning and success.
C4_OneGoodOneBad ==
  (pc = "done" /\ IsText /\ Len(feedback.chunks) = 2
     /\ Cardinality(KindsAt(WellFormedKinds)) = 1
     /\ Cardinality(KindsAt(MalformedKinds)) = 1)
  => /\ Len(InlineCalls) = 1
     /\ Len(warnings) >= 1
     /\ outcome = "success"

\* C5: a decoded object that carries no no-issues signal and has body, path and
\* line is submitted as one inline comment at its path and line, and not as
\* a discussion comment.
C5_StructuredObjectInline ==
  (pc = "done" /\ feedback.kind = "object" /\ ~Truthy(feedback.obj.is_ok)
     /\ HasRequired(feedback.obj) /\ AllCallsOk)
  => /\ Len(InlineCalls) = 1
     /\ InlineCalls[1].arg.path = feedback.obj.path
     /\ InlineCalls[1].arg.line = feedback.obj.line
     /\ DiscussionCalls = <<>>

FetchFailed == \E i \in DOMAIN calls : calls[i].op \in FetchOps /\ calls[i].result # "ok"

\* C6: once a context fetch has failed the completion model is not called,
\* no comment is submitted, and the invocation has failed with the message
\* of that error.
C6_FetchFailureIsFatal ==
  FetchFailed
  => /\ ModelCalls = <<>>
     /\ InlineCalls = <<>>
     /\ DiscussionCalls = <<>>
     /\ pc = "done"
     /\ outcome = "failed"
     /\ failedMessage = <<FailPrefix, calls[Len(calls)].result>>

C6_Witness ==
  /\ pc = "done"
  /\ Len(calls) = 4
  /\ calls[4].op = "issues.listComments"
  /\ calls[4].result = "Not Found"

FailedInline == SelectSeq(InlineCalls, LAMBDA c : c.result # "ok")

SubmitWarnings == SelectSeq(warnings, LAMBDA w : w[2] \in ErrMsgs)

\* C7: when submissions of inline comments fail, each failure leaves a
\* warning with its message, every draft is still submitted in order, and
\* the invocation ends in success.
C7_SubmissionFailureTolerated ==
  (pc = "done" /\ FailedInline # <<>>)
  => /\ outcome = "success"
     /\ [i \in DOMAIN InlineCalls |-> InlineCalls[i].arg] = ExpectedDrafts(jsonMatches)
     /\ SubmitWarnings = [i \in DOMAIN FailedInline |-> <<WarnPrefix, FailedInline[i].result>>]

C7_Witness ==
  /\ pc = "done"
  /\ Len(InlineCalls) = 3
  /\ InlineCalls[1].result # "ok"
  /\ InlineCalls[2].result = "ok"
  /\ InlineCalls[3].result # "ok"

PostedOk ==
  \E i \in DOMAIN calls :
    /\ calls[i].op \in {"pulls.createReviewComment", "issues.createComment"}
    /\ calls[i].result = "ok"

\* C8: an invocation that reports failure has posted no comment.
C8_FailureMeansNothingPosted == outcome = "failed" => ~PostedOk

C8_Witness ==
  /\ outcome = "failed"
  /\ Len(DiscussionCalls) = 2
  /\ IsText

\* C9: no invocation submits both an inline comment and a discussion comment.
C9_InlineXorDiscussion == ~(InlineCalls # <<>> /\ DiscussionCalls # <<>>)

C9_Witness ==
  /\ pc = "done"
  /\ Len(InlineCalls) = 2
  /\ InlineCalls[1].result = "ok"
  /\ InlineCalls[2].result # "ok"
  /\ Len(warnings) = 2

\* C10: the discussion comment is attempted at most once in an invocation,
\* also when its submission fails.
C10_DiscussionAttemptedOnce == Len(DiscussionCalls) <= 1

====
